---------------------------- MODULE Spec2Model ----------------------------
(***************************************************************************)
(* A model of src/api/main.py: the Roblox pets API.                        *)
(*                                                                         *)
(*  - the JobId cache (get_cached_job_ids) and its lookup (get_job_id);    *)
(*  - the status loop (_status_loop) with the active-bot map;              *)
(*  - the upload handler (upload_pets) with its webhook sends.             *)
(*                                                                         *)
(* The program runs on one asyncio event loop: a coroutine runs without    *)
(* interruption between two awaits.  Every action below is one such        *)
(* segment of a coroutine, from the await that resumes it to the next      *)
(* await (or its return).                                                  *)
(***************************************************************************)
EXTENDS Integers, Sequences, FiniteSets, TLC

(***************************************************************************)
(* Program constants                                                       *)
(***************************************************************************)
CACHE_TTL_SECONDS == 90

BOT_TIMEOUT_SECONDS == 180

\* `None` of an Optional[datetime]
NoTime == -1

\* `None` of Optional[str] values (a job id, a message id)
None == "None"

(***************************************************************************)
(* Bounds of the model                                                     *)
(***************************************************************************)
\* pages one pagination run may see when one request runs alone
MaxPages == 3

\* pages one pagination run may see when requests run concurrently
MaxPagesConc == 2

\* pets of one upload
MaxBatch == 2

\* pets received over a run of the uploads
MaxPetsReceived == 2

(***************************************************************************)
(* The clock: datetime.now() read at the instants below (seconds), chosen  *)
(* around the TTL so that ages of TTL-1, TTL and TTL+1 all occur.          *)
(***************************************************************************)
Instants ==
    {0, 1, CACHE_TTL_SECONDS, CACHE_TTL_SECONDS + 1, CACHE_TTL_SECONDS + 2}

\* the instants of the status loop and the uploads, chosen around the bot
\* timeout so that silences of TIMEOUT-1, TIMEOUT and TIMEOUT+1 all occur
InstantsBots ==
    {0, 1, BOT_TIMEOUT_SECONDS, BOT_TIMEOUT_SECONDS + 1, BOT_TIMEOUT_SECONDS + 2}

(***************************************************************************)
(* The Roblox servers API.  A server entry of the "data" array is a dict;  *)
(* a well-formed one carries "id".                                         *)
(***************************************************************************)
Server(id) == [id |-> id, playing |-> 1]

\* an entry of a malformed body: a dict without "id"
ServerNoId == [playing |-> 1]

HasId(server) == "id" \in DOMAIN server

\* the pages ("data" arrays) a 200 response may carry
Pages ==
    { <<>>, <<Server("a")>>, <<Server("b")>>,
      <<Server("b"), Server("a")>>, <<ServerNoId>> }

\* the pages used when requests run concurrently
PagesConc == { <<>>, <<Server("a")>> }

\* concurrent GET /get-job requests
Requests == {1, 2}

VARIABLES
    now,                 \* the wall clock, datetime.now()
    _job_ids_cache,      \* global: the list of cached job ids
    _cache_updated_at,   \* global: Optional[datetime]
    pc,                  \* per request: where its coroutine is suspended
    agora,               \* per request: local `agora` of get_cached_job_ids
    all_servers,         \* per request: local `all_servers`
    cursor,              \* per request: local `cursor` (0: None / falsy)
    pagesLog,            \* per request: the pages its 200 responses carried
    result,              \* per request: what get_job_id returned ("jobId")
    last,                \* the step just taken: [req, act]
    _active_bots,        \* global: player_id -> last upload (datetime)
    _gen_counters,       \* global: the five cumulative gen counters
    _total_pets_received, \* global
    pets_database,       \* global: player_id -> list of pet dicts
    last_touch,          \* player_id -> its latest upload (datetime), kept
                         \* when _active_bots drops the player
    up_data,             \* the upload request: player_id and `data`
    up_pc,               \* the upload request: where it is suspended
    tasks,               \* the upload request: local `tasks`, with each
                         \* send's state
    ack,                 \* the upload request: what POST /upload returned
    _status_message_id,  \* global: Optional[str]
    st_pc,               \* the status loop: where it is suspended
    st_payload,          \* the status loop: the embed of the call in flight
    st_prev              \* the status loop: how its previous call ended

cacheVars ==
    <<_job_ids_cache, _cache_updated_at, pc, agora, all_servers,
      cursor, pagesLog, result>>

uploadVars ==
    <<_active_bots, _gen_counters, _total_pets_received, pets_database,
      last_touch, up_data, up_pc, tasks, ack>>

statusVars == <<_status_message_id, st_pc, st_payload, st_prev>>

vars == <<now, last, cacheVars, uploadVars, statusVars>>

(***************************************************************************)
(* Helpers                                                                 *)
(***************************************************************************)
Range(s) == { s[i] : i \in 1..Len(s) }

RECURSIVE Flatten(_)
Flatten(ps) == IF ps = <<>> THEN <<>> ELSE Head(ps) \o Flatten(Tail(ps))

(***************************************************************************)
(* get_cached_job_ids, lines 134-216                                       *)
(***************************************************************************)
\* lines 140-143: cache_expirado
CacheExpiredGE(t) ==
    \/ _cache_updated_at = NoTime
    \/ t - _cache_updated_at >= CACHE_TTL_SECONDS

CacheExpired(t) ==
    \/ _cache_updated_at = NoTime
    \/ t - _cache_updated_at > CACHE_TTL_SECONDS

\* line 164: all_servers.extend(servers)
ExtendPrepend(servers, page) == page \o servers

Extend(servers, page) == servers \o page

\* lines 181, 194: [server["id"] for server in all_servers]; KeyError on an
\* entry without "id"
IdsRaise(servers) == \E i \in 1..Len(servers) : ~HasId(servers[i])

IdsOf(servers) == [i \in 1..Len(servers) |-> servers[i].id]

\* What a finished refresh leaves: the new cache, the new timestamp, and
\* whether an exception leaves get_cached_job_ids.
Outcome(ids, at, raised) == [ids |-> ids, at |-> at, raised |-> raised]

\* lines 208-210: except Exception: stamp, then fall to line 216
OnExceptionPropagate(t) == Outcome(_job_ids_cache, _cache_updated_at, TRUE)

OnException(t) == Outcome(_job_ids_cache, t, FALSE)

\* lines 176-188: status 429
OnRateLimitNoStamp(servers, t) ==
    IF servers # <<>>
    THEN IF IdsRaise(servers) THEN OnException(t)
         ELSE Outcome(IdsOf(servers), t, FALSE)
    ELSE Outcome(_job_ids_cache, _cache_updated_at, FALSE)

OnRateLimitKeep(servers, t) == Outcome(_job_ids_cache, t, FALSE)

\* as OnRateLimit, had line 179 not tested all_servers
OnRateLimitReplace(servers, t) ==
    IF IdsRaise(servers) THEN OnException(t)
    ELSE Outcome(IdsOf(servers), t, FALSE)

OnRateLimit(servers, t) ==
    IF servers # <<>>
    THEN IF IdsRaise(servers) THEN OnException(t)
         ELSE Outcome(IdsOf(servers), t, FALSE)
    ELSE Outcome(_job_ids_cache, t, FALSE)

\* lines 193-206: after the loop (no further cursor, or a break)
OnLoopEndReplace(servers, t) ==
    IF IdsRaise(servers) THEN OnException(t)
    ELSE Outcome(IdsOf(servers), t, FALSE)

OnLoopEnd(servers, t) ==
    IF IdsRaise(servers) THEN OnException(t)
    ELSE IF IdsOf(servers) # <<>>
         THEN Outcome(IdsOf(servers), t, FALSE)
         ELSE Outcome(_job_ids_cache, t, FALSE)

\* lines 189-191: another status: break, then lines 193-206
OnOtherStatusDrop(servers, t) == OnException(t)

OnOtherStatus(servers, t) == OnLoopEnd(servers, t)

(***************************************************************************)
(* get_job_id, lines 532-545: what the request answers once                *)
(* get_cached_job_ids returned job_ids (or raised).                        *)
(***************************************************************************)
JobAnswers(job_ids, raised) ==
    IF raised THEN {"error"}                 \* HTTP 500
    ELSE IF job_ids = <<>> THEN {None}       \* lines 536-537
    ELSE Range(job_ids)                      \* line 539: random.choice

\* The refresh of request r ends with outcome o: the globals are assigned and
\* get_job_id answers, all before the next await.
Finish(r, o, act) ==
    /\ _job_ids_cache' = o.ids
    /\ _cache_updated_at' = o.at
    /\ \E j \in JobAnswers(o.ids, o.raised) : result' = [result EXCEPT ![r] = j]
    /\ pc' = [pc EXCEPT ![r] = "done"]
    /\ last' = [req |-> r, act |-> act]

\* GET /get-job arrives: lines 534, 137-145, and 211-216 when the cache is
\* still valid; otherwise the first page is requested (line 159).
GetJobStart(r) ==
    /\ pc[r] \in {"idle", "done"}
    /\ agora' = [agora EXCEPT ![r] = now]
    /\ all_servers' = [all_servers EXCEPT ![r] = <<>>]
    /\ cursor' = [cursor EXCEPT ![r] = 0]
    /\ pagesLog' = [pagesLog EXCEPT ![r] = <<>>]
    /\ IF CacheExpired(now)
       THEN /\ pc' = [pc EXCEPT ![r] = "get"]
            /\ result' = [result EXCEPT ![r] = "pending"]
            /\ last' = [req |-> r, act |-> "fetch"]
            /\ UNCHANGED <<_job_ids_cache, _cache_updated_at>>
       ELSE Finish(r, Outcome(_job_ids_cache, _cache_updated_at, FALSE), "skip")
    /\ UNCHANGED <<now, uploadVars, statusVars>>

\* line 159 returns a 200 with a body: lines 161-175, and 193-206 when the
\* body names no further cursor.  `more`: the body carries nextPageCursor.
PageOk(r, page, more) ==
    /\ pc[r] = "get"
    /\ LET servers == Extend(all_servers[r], page) IN
       /\ all_servers' = [all_servers EXCEPT ![r] = servers]
       /\ pagesLog' = [pagesLog EXCEPT ![r] = Append(@, page)]
       /\ IF more
          THEN /\ cursor' = [cursor EXCEPT ![r] = Len(pagesLog[r]) + 2]
               /\ pc' = [pc EXCEPT ![r] = "sleep"]
               /\ last' = [req |-> r, act |-> "page"]
               /\ UNCHANGED <<_job_ids_cache, _cache_updated_at, result>>
          ELSE /\ cursor' = [cursor EXCEPT ![r] = 0]
               /\ Finish(r, OnLoopEnd(servers, agora[r]), "end")
    /\ UNCHANGED <<now, agora, uploadVars, statusVars>>

\* line 175: the 0.5 s sleep is over; the next page is requested
SleepDone(r) ==
    /\ pc[r] = "sleep"
    /\ pc' = [pc EXCEPT ![r] = "get"]
    /\ last' = [req |-> r, act |-> "fetch"]
    /\ UNCHANGED <<uploadVars, statusVars>>
    /\ UNCHANGED <<now, _job_ids_cache, _cache_updated_at, agora,
                   all_servers, cursor, pagesLog, result>>

\* line 159 returns status 429: lines 176-188
PageRateLimited(r) ==
    /\ pc[r] = "get"
    /\ Finish(r, OnRateLimit(all_servers[r], agora[r]), "429")
    /\ UNCHANGED <<uploadVars, statusVars>>
    /\ UNCHANGED <<now, agora, all_servers, cursor, pagesLog>>

\* line 159 returns another status: lines 189-206
PageOtherStatus(r) ==
    /\ pc[r] = "get"
    /\ Finish(r, OnOtherStatus(all_servers[r], agora[r]), "status")
    /\ UNCHANGED <<uploadVars, statusVars>>
    /\ UNCHANGED <<now, agora, all_servers, cursor, pagesLog>>

\* line 159 raises (transport error, timeout) or line 162 does (a body that
\* is not JSON): lines 208-216
PageRaises(r) ==
    /\ pc[r] = "get"
    /\ Finish(r, OnException(agora[r]), "raise")
    /\ UNCHANGED <<uploadVars, statusVars>>
    /\ UNCHANGED <<now, agora, all_servers, cursor, pagesLog>>

\* time passes: the clock moves to a later instant of `instants`
Tick(instants) ==
    /\ \E t \in instants : t > now /\ now' = t
    /\ last' = [req |-> 0, act |-> "tick"]
    /\ UNCHANGED <<cacheVars, uploadVars, statusVars>>

(***************************************************************************)
(* Pets and the tier tables, lines 28-38 and 344-377                       *)
(***************************************************************************)
\* A pet name as sent: `name` with `pad` blanks around it.  str.strip()
\* removes the blanks.
Index(name, pad) == [name |-> name, pad |-> pad]

Strip(index) == index.name

Pet(index, gen) ==
    [index |-> index, gen |-> gen, genText |-> "", rarity |-> "",
     mutation |-> "", traits |-> ""]

TIER1_PETS ==
    { "Dragon Canelonni", "La Supreme Combinasion", "Cerberus",
      "Headless Horseman", "Skibidi Toilet", "Strawberry Elephant",
      "Meowl", "Dragon Gingerini", "Ginger Gerat", "Love Love Bear" }

\* line 352-353: two adjacent literals without a comma are one string
TIER2_PETS ==
    { "Spooky and Pumpky", "La Secret Combinasion", "Burguro and Fryuro",
      "Ketupat Bros", "Hydra Dragon Canelonni", "Reinito Sleightito",
      "Popcuru And FizzuruCooki and Milki", "Racconi Jandelini",
      "La Casa Boo", "La Food Combinasion", "Los  Amigos" }

\* line 362-363: two adjacent literals without a comma are one string
TIER3_PETS ==
    { "Tang Tang Keletang", "Ketupat Kepat", "Spaggheti Tualetti",
      "Garama and Madundung", "La Ginger Sekolah", "Lavadorito Spinito",
      "Ketchuru and Musturu", "Tictac Sahur", "Swaggy Bros",
      "Los Tacoritas", "Los Puggies", "La Romantic Grande",
      "Orcaledon", "La spooky Grande", "W or L", "Eviledon",
      "Tralaledon", "Chipso and Queso", "Los Hotspotsitos", "Spinny Hammy",
      "Bacuru and EgguruMoney Money Puggy", "Nuclearo Dinossauro",
      "Tacorita Bicicleta", "Los Primos", "Los Bros", "Baccuru and Egguru",
      "Mariachi Corazoni", "Esok Sekolah", "Mieteteira Bicicleteira",
      "Chicleteira Noelteira", "Cupideira Chicleteira" }

SECRET_LUCKY_BLOCK_NAME == "Secret Lucky Block"

ALL_TIER_PETS == TIER1_PETS \cup TIER2_PETS \cup TIER3_PETS

GEN_HIGH == 20000000

\* line 384: the gen from which "Capitano Moby" is tier 1
MOBY_TIER1_GEN == 1000000000

\* as get_pet_tier, had line 384 compared with `>`
get_pet_tier_GT(pet) ==
    LET name == Strip(pet.index)
    IN  IF name = "Capitano Moby"
        THEN (IF pet.gen > MOBY_TIER1_GEN THEN 1 ELSE 2)
        ELSE IF name \in TIER1_PETS THEN 1
        ELSE IF name \in TIER2_PETS THEN 2
        ELSE IF name \in TIER3_PETS THEN 3
        ELSE 0

\* lines 381-391; 0 stands for None
get_pet_tier(pet) ==
    LET name == Strip(pet.index)
    IN  IF name = "Capitano Moby"
        THEN (IF pet.gen >= MOBY_TIER1_GEN THEN 1 ELSE 2)
        ELSE IF name \in TIER1_PETS THEN 1
        ELSE IF name \in TIER2_PETS THEN 2
        ELSE IF name \in TIER3_PETS THEN 3
        ELSE 0

\* lines 393-394
is_secret_lucky_block(pet) == Strip(pet.index) = SECRET_LUCKY_BLOCK_NAME

\* as is_gen_high, had line 400 compared with `>=`
is_gen_high_GE(pet) ==
    LET name == Strip(pet.index)
    IN  IF \/ name \in ALL_TIER_PETS
           \/ name = "Capitano Moby"
           \/ name = SECRET_LUCKY_BLOCK_NAME
        THEN FALSE
        ELSE pet.gen >= GEN_HIGH

\* lines 396-400
is_gen_high(pet) ==
    LET name == Strip(pet.index)
    IN  IF \/ name \in ALL_TIER_PETS
           \/ name = "Capitano Moby"
           \/ name = SECRET_LUCKY_BLOCK_NAME
        THEN FALSE
        ELSE pet.gen > GEN_HIGH

\* as get_webhook_for_tier, had the dictionary of line 403 been shifted
get_webhook_for_tier_Shifted(tier) ==
    CASE tier = 1 -> "WEBHOOK_TIER2"
      [] tier = 2 -> "WEBHOOK_TIER3"
      [] tier = 3 -> "WEBHOOK_TIER1"

\* lines 402-403
get_webhook_for_tier(tier) ==
    CASE tier = 1 -> "WEBHOOK_TIER1"
      [] tier = 2 -> "WEBHOOK_TIER2"
      [] tier = 3 -> "WEBHOOK_TIER3"

\* as PetWebhooks, had the gen alone been tested, and before the name
PetWebhooksGenFirst(pet) ==
    IF pet.gen > GEN_HIGH THEN <<"WEBHOOK_HIGH_GEN">>
    ELSE IF is_secret_lucky_block(pet) THEN <<"WEBHOOK_SECRET_LUCKY_BLOCK">>
    ELSE IF get_pet_tier(pet) # 0
         THEN <<get_webhook_for_tier(get_pet_tier(pet))>>
    ELSE <<>>

\* lines 508-516: the webhooks one pet of an upload is sent to (none or one)
PetWebhooks(pet) ==
    IF is_secret_lucky_block(pet) THEN <<"WEBHOOK_SECRET_LUCKY_BLOCK">>
    ELSE IF get_pet_tier(pet) # 0
         THEN <<get_webhook_for_tier(get_pet_tier(pet))>>
    ELSE IF is_gen_high(pet) THEN <<"WEBHOOK_HIGH_GEN">>
    ELSE <<>>

(***************************************************************************)
(* The gen counters, lines 90-124                                          *)
(***************************************************************************)
GenKeys == {"10M", "50M", "100M", "500M", "1B"}

\* as GenKeysOf, had the counters not been cumulative: only the counter of
\* the highest threshold passed
GenKeysOfHighest(g) ==
    IF g > 1000000000 THEN {"1B"}
    ELSE IF g > 500000000 THEN {"500M"}
    ELSE IF g > 100000000 THEN {"100M"}
    ELSE IF g > 50000000 THEN {"50M"}
    ELSE IF g > 10000000 THEN {"10M"}
    ELSE {}

\* as GenKeysOf, had the first branch left out the line of "10M"
GenKeysOfNoLowest(g) ==
    IF g > 1000000000 THEN {"1B", "500M", "100M", "50M"}
    ELSE IF g > 500000000 THEN {"500M", "100M", "50M", "10M"}
    ELSE IF g > 100000000 THEN {"100M", "50M", "10M"}
    ELSE IF g > 50000000 THEN {"50M", "10M"}
    ELSE IF g > 10000000 THEN {"10M"}
    ELSE {}

\* the keys update_gen_counters increments for gen g
GenKeysOf(g) ==
    IF g > 1000000000 THEN {"1B", "500M", "100M", "50M", "10M"}
    ELSE IF g > 500000000 THEN {"500M", "100M", "50M", "10M"}
    ELSE IF g > 100000000 THEN {"100M", "50M", "10M"}
    ELSE IF g > 50000000 THEN {"50M", "10M"}
    ELSE IF g > 10000000 THEN {"10M"}
    ELSE {}

\* lines 100-124, applied to counters c
update_gen_counters(c, pet) ==
    [k \in GenKeys |-> IF k \in GenKeysOf(pet.gen) THEN c[k] + 1 ELSE c[k]]

RECURSIVE CountAll(_, _)
CountAll(c, pets) ==
    IF pets = <<>> THEN c
    ELSE CountAll(update_gen_counters(c, Head(pets)), Tail(pets))

(***************************************************************************)
(* The active bots, lines 62-85                                            *)
(***************************************************************************)
Players == {"default_player", "bot7"}

\* lines 66-67
register_bot_activity(bots, player_id, t) ==
    [p \in DOMAIN bots \cup {player_id} |->
        IF p = player_id THEN t ELSE bots[p]]

\* as cleanup_inactive_bots, had line 74 compared with `>=`
cleanup_inactive_bots_GE(bots, t) ==
    LET inativos == { p \in DOMAIN bots : t - bots[p] >= BOT_TIMEOUT_SECONDS }
    IN  [p \in DOMAIN bots \ inativos |-> bots[p]]

\* lines 70-77
cleanup_inactive_bots(bots, t) ==
    LET inativos == { p \in DOMAIN bots : t - bots[p] > BOT_TIMEOUT_SECONDS }
    IN  [p \in DOMAIN bots \ inativos |-> bots[p]]

\* as get_active_bot_count, had line 84 compared with `<`
get_active_bot_count_LT(bots, t) ==
    Cardinality({ p \in DOMAIN bots : t - bots[p] < BOT_TIMEOUT_SECONDS })

\* lines 80-85
get_active_bot_count(bots, t) ==
    Cardinality({ p \in DOMAIN bots : t - bots[p] <= BOT_TIMEOUT_SECONDS })

(***************************************************************************)
(* POST /upload, lines 485-525                                             *)
(***************************************************************************)
\* line 503-505: pet.dict(), with the job id the upload names
PetDict(pet, job_id) ==
    IF job_id # None THEN pet @@ [sent_from_job_id |-> job_id] ELSE pet

RECURSIVE PetDicts(_, _)
PetDicts(pets, job_id) ==
    IF pets = <<>> THEN <<>>
    ELSE <<PetDict(Head(pets), job_id)>> \o PetDicts(Tail(pets), job_id)

\* as TasksOf, had the loop stopped at the first pet that is notified
RECURSIVE TasksOfFirstOnly(_)
TasksOfFirstOnly(pets) ==
    IF pets = <<>> THEN <<>>
    ELSE LET hooks == PetWebhooks(Head(pets))
         IN  IF hooks # <<>>
             THEN <<[url |-> hooks[1], pet |-> Head(pets),
                     state |-> "inflight"]>>
             ELSE TasksOfFirstOnly(Tail(pets))

\* lines 497-516: the coroutines appended to `tasks`, in the order of the
\* pets; each is a send to one webhook, not yet awaited
RECURSIVE TasksOf(_)
TasksOf(pets) ==
    IF pets = <<>> THEN <<>>
    ELSE LET hooks == PetWebhooks(Head(pets))
         IN  [i \in 1..Len(hooks) |->
                 [url |-> hooks[i], pet |-> Head(pets), state |-> "inflight"]]
             \o TasksOf(Tail(pets))

\* lines 521-522
Ack(pets, job_id) ==
    [status |-> "ok", pets_received |-> Len(pets), job_id |-> job_id]

\* line 519: `await asyncio.gather(*tasks, return_exceptions=True)` resumes
\* once every task has finished
GatherDoneNoWait(ts) == TRUE

GatherDone(ts) == \A i \in 1..Len(ts) : ts[i].state # "inflight"

\* lines 486-519: the request arrives; everything up to the gather (or to the
\* return, when no pet is notified) runs without an await
UploadStart(player_id, pets, job_id) ==
    /\ up_pc \in {"idle", "done"}
    /\ _active_bots' = register_bot_activity(_active_bots, player_id, now)
    /\ _total_pets_received' = _total_pets_received + Len(pets)
    /\ _gen_counters' = CountAll(_gen_counters, pets)
    /\ pets_database' =
          [p \in DOMAIN pets_database \cup {player_id} |->
              IF p = player_id
              THEN (IF p \in DOMAIN pets_database
                    THEN pets_database[p] ELSE <<>>) \o PetDicts(pets, job_id)
              ELSE pets_database[p]]
    /\ last_touch' =
          [p \in DOMAIN last_touch \cup {player_id} |->
              IF p = player_id THEN now ELSE last_touch[p]]
    /\ up_data' = [player_id |-> player_id, pets |-> pets,
                   current_job_id |-> job_id]
    /\ tasks' = TasksOf(pets)
    /\ IF tasks' # <<>>
       THEN /\ up_pc' = "gather"
            /\ ack' = [status |-> "pending", pets_received |-> Len(pets),
                       job_id |-> job_id]
            /\ last' = [req |-> 1, act |-> "upload"]
       ELSE /\ up_pc' = "done"
            /\ ack' = Ack(pets, job_id)
            /\ last' = [req |-> 1, act |-> "upload_ack"]
    /\ UNCHANGED <<now, cacheVars, statusVars>>

\* lines 416-423: the POST of send i ends: a 2xx, another status, or an
\* exception; send_webhook logs and swallows the last two
SendDone(i, how) ==
    /\ up_pc = "gather"
    /\ i \in 1..Len(tasks)
    /\ tasks[i].state = "inflight"
    /\ tasks' = [tasks EXCEPT ![i].state = how]
    /\ last' = [req |-> 1, act |-> "send_done"]
    /\ UNCHANGED <<now, cacheVars, statusVars, _active_bots, _gen_counters,
                   _total_pets_received, pets_database, last_touch, up_data,
                   up_pc, ack>>

\* lines 519-522: the gather resumes the handler, which returns
UploadReturn ==
    /\ up_pc = "gather"
    /\ GatherDone(tasks)
    /\ up_pc' = "done"
    /\ ack' = [ack EXCEPT !.status = "ok"]
    /\ last' = [req |-> 1, act |-> "upload_ack"]
    /\ UNCHANGED <<now, cacheVars, statusVars, _active_bots, _gen_counters,
                   _total_pets_received, pets_database, last_touch, up_data,
                   tasks>>

(***************************************************************************)
(* _status_loop, lines 245-334                                             *)
(***************************************************************************)
\* lines 254-309: what the embed reports
StatusPayload(bots, t) ==
    [bots_online |-> get_active_bot_count(bots, t),
     total_pets |-> _total_pets_received,
     gen |-> _gen_counters,
     at |-> t]

\* lines 249-329: the sleep of 1 s is over: the inactive bots are removed,
\* the embed is built, and the message is created (POST) when no message id
\* is stored and edited (PATCH) otherwise.  cleanup_inactive_bots reads the
\* clock (line 71) and get_active_bot_count reads it again (line 81): the
\* second read, t, is the same instant or a later one
StatusTick(t) ==
    /\ st_pc = "sleep"
    /\ t >= now
    /\ now' = t
    /\ _active_bots' = cleanup_inactive_bots(_active_bots, now)
    /\ st_payload' = StatusPayload(_active_bots', t)
    /\ st_pc' = IF _status_message_id = None THEN "post" ELSE "patch"
    /\ last' = [req |-> 0,
                act |-> IF _status_message_id = None THEN "create" ELSE "update"]
    /\ UNCHANGED <<cacheVars, _gen_counters, _total_pets_received,
                   pets_database, last_touch, up_data, up_pc, tasks, ack,
                   _status_message_id, st_prev>>

\* as StatusPostDone, had line 320 not stored the id of the new message
StatusPostDoneNoStore(how, id) ==
    /\ st_pc = "post"
    /\ _status_message_id' = _status_message_id
    /\ st_prev' = [call |-> "create", how |-> how,
                   id |-> IF how = "id" THEN id ELSE None]
    /\ st_pc' = "sleep"
    /\ st_payload' = None
    /\ last' = [req |-> 0, act |-> "create_done"]
    /\ UNCHANGED <<now, cacheVars, uploadVars>>

\* lines 319-323: the POST ends.  how: "id" (status 200 or 204 with a JSON
\* body naming "id"), "no_id" (200 or 204 with a JSON body without "id"),
\* "no_body" (200 or 204 without a JSON body: resp.json() raises), "status"
\* (another status), "raise" (transport error, timeout)
StatusPostDone(how, id) ==
    /\ st_pc = "post"
    /\ _status_message_id' =
          CASE how = "id" -> id                  \* line 320
            [] how = "no_id" -> None             \* line 320: .get("id")
            [] OTHER -> _status_message_id
    /\ st_prev' = [call |-> "create", how |-> how,
                   id |-> IF how = "id" THEN id ELSE None]
    /\ st_pc' = "sleep"
    /\ st_payload' = None
    /\ last' = [req |-> 0, act |-> "create_done"]
    /\ UNCHANGED <<now, cacheVars, uploadVars>>

\* line 330-334, a PATCH that ends with a status outside (200, 204)
OnPatchStatusKeep(id) == id

OnPatchStatus(id) == None

\* line 333-334, a PATCH that raises
OnPatchRaise(id) == id

\* lines 325-334: the PATCH ends.  how: "ok" (status 200 or 204), "status"
\* (another status), "raise" (transport error, timeout)
StatusPatchDone(how) ==
    /\ st_pc = "patch"
    /\ _status_message_id' =
          CASE how = "ok" -> _status_message_id
            [] how = "status" -> OnPatchStatus(_status_message_id)
            [] how = "raise" -> OnPatchRaise(_status_message_id)
    /\ st_prev' = [call |-> "update", how |-> how]
    /\ st_pc' = "sleep"
    /\ st_payload' = None
    /\ last' = [req |-> 0, act |-> "update_done"]
    /\ UNCHANGED <<now, cacheVars, uploadVars>>


(***************************************************************************)
(* The initial state: the module's globals as lines 18-131 and 230 leave   *)
(* them, no request in progress, the status loop in its first sleep.       *)
(***************************************************************************)
EmptyMap == [p \in {} |-> 0]

Init ==
    /\ now = 0
    /\ last = [req |-> 0, act |-> "init"]
    /\ _job_ids_cache = <<>>
    /\ _cache_updated_at = NoTime
    /\ pc = [r \in Requests |-> "idle"]
    /\ agora = [r \in Requests |-> 0]
    /\ all_servers = [r \in Requests |-> <<>>]
    /\ cursor = [r \in Requests |-> 0]
    /\ pagesLog = [r \in Requests |-> <<>>]
    /\ result = [r \in Requests |-> "pending"]
    /\ _active_bots = EmptyMap
    /\ _gen_counters = [k \in GenKeys |-> 0]
    /\ _total_pets_received = 0
    /\ pets_database = EmptyMap
    /\ last_touch = EmptyMap
    /\ up_data = [player_id |-> None, pets |-> <<>>, current_job_id |-> None]
    /\ up_pc = "idle"
    /\ tasks = <<>>
    /\ ack = [status |-> "none", pets_received |-> 0, job_id |-> None]
    /\ _status_message_id = None
    /\ st_pc = "sleep"
    /\ st_payload = None
    /\ st_prev = [call |-> "none", how |-> "none"]

(***************************************************************************)
(* The JobId cache, one GET /get-job at a time                             *)
(***************************************************************************)
NextCache ==
    \/ Tick(Instants)
    \/ GetJobStart(1)
    \/ \E page \in Pages, more \in BOOLEAN :
          /\ more => Len(pagesLog[1]) + 1 < MaxPages
          /\ PageOk(1, page, more)
    \/ SleepDone(1)
    \/ PageRateLimited(1)
    \/ PageOtherStatus(1)
    \/ PageRaises(1)

SpecCache == Init /\ [][NextCache]_vars

(***************************************************************************)
(* The JobId cache, GET /get-job requests interleaving at their awaits     *)
(***************************************************************************)
NextCacheConc ==
    \/ Tick(Instants)
    \/ \E r \in Requests : GetJobStart(r)
    \/ \E r \in Requests, page \in PagesConc, more \in BOOLEAN :
          /\ more => Len(pagesLog[r]) + 1 < MaxPagesConc
          /\ PageOk(r, page, more)
    \/ \E r \in Requests : SleepDone(r)
    \/ \E r \in Requests : PageRateLimited(r)
    \/ \E r \in Requests : PageOtherStatus(r)
    \/ \E r \in Requests : PageRaises(r)

SpecCacheConc == Init /\ [][NextCacheConc]_vars

(***************************************************************************)
(* The uploads                                                             *)
(***************************************************************************)
\* the pets of the uploads: one of tier 1 (sent with blanks around its
\* name), one of no table with a gen above GEN_HIGH, one of no table with
\* a gen of GEN_HIGH, a Secret Lucky Block, a Capitano Moby
UploadPets ==
    { Pet(Index("Cerberus", 1), 5),
      Pet(Index("Noobini Pizzanini", 0), 25000001),
      Pet(Index("Noobini Pizzanini", 0), GEN_HIGH),
      Pet(Index(SECRET_LUCKY_BLOCK_NAME, 0), 1000000001),
      Pet(Index("Capitano Moby", 0), MOBY_TIER1_GEN) }

RECURSIVE SeqsUpTo(_, _)
SeqsUpTo(S, n) ==
    IF n = 0 THEN {<<>>}
    ELSE LET shorter == SeqsUpTo(S, n - 1)
         IN  shorter \cup { Append(q, x) : q \in shorter, x \in S }

SendOutcomes == {"ok", "status", "raise"}

NextUpload ==
    \/ \E pets \in SeqsUpTo(UploadPets, MaxBatch), job_id \in {None, "job1"} :
          /\ _total_pets_received + Len(pets) <= MaxPetsReceived
          /\ UploadStart("bot7", pets, job_id)
    \/ \E i \in 1..MaxBatch, how \in SendOutcomes : SendDone(i, how)
    \/ UploadReturn

SpecUpload == Init /\ [][NextUpload]_vars

(***************************************************************************)
(* The status loop, beside uploads of at most one pet, a pet that is       *)
(* counted and not notified                                                *)
(***************************************************************************)
StatusPets == { Pet(Index("Noobini Pizzanini", 0), GEN_HIGH) }

MessageIds == {"m1", "m2"}

NextStatus ==
    \/ Tick(InstantsBots)
    \/ \E player_id \in Players, pets \in SeqsUpTo(StatusPets, 1) :
          /\ _total_pets_received + Len(pets) <= MaxPetsReceived
          /\ UploadStart(player_id, pets, None)
    \/ \E t \in InstantsBots : StatusTick(t)
    \/ \E how \in {"id", "no_id", "no_body", "status", "raise"},
          id \in MessageIds : StatusPostDone(how, id)
    \/ \E how \in {"ok", "status", "raise"} : StatusPatchDone(how)

SpecStatus == Init /\ [][NextStatus]_vars

(***************************************************************************)
(* The classification of one pet: one upload of one pet, over every name   *)
(* of the tier sets, the two special names, names of no rule, and the gens *)
(* around each threshold                                                   *)
(***************************************************************************)
ClassifyNames ==
    ALL_TIER_PETS \cup
    { "Capitano Moby", SECRET_LUCKY_BLOCK_NAME, "Noobini Pizzanini",
      "Cooki and Milki", "Popcuru And Fizzuru", "Money Money Puggy",
      "cerberus" }

ClassifyGens ==
    { 0, 5, 9999999, 10000000, 10000001, 19999999, 20000000, 20000001,
      25000001, 50000000, 50000001, 100000000, 100000001, 500000000,
      500000001, 999999999, 1000000000, 1000000001 }

ClassifyPets ==
    { Pet(Index(name, pad), gen) :
          name \in ClassifyNames, pad \in {0, 1}, gen \in ClassifyGens }

NextClassify ==
    \/ \E pet \in ClassifyPets :
          /\ up_pc = "idle"
          /\ UploadStart("bot7", <<pet>>, None)
    \/ \E how \in SendOutcomes : SendDone(1, how)
    \/ UploadReturn

SpecClassify == Init /\ [][NextClassify]_vars

(***************************************************************************)
(* The gen counters over sequences of uploads, with the gens around each   *)
(* threshold of the counters                                               *)
(***************************************************************************)
CountGens ==
    { 5, 10000000, 10000001, 50000000, 50000001, 100000000, 100000001,
      500000000, 500000001, 1000000000, 1000000001 }

CountPets ==
    { Pet(Index("Noobini Pizzanini", 0), gen) : gen \in CountGens }
    \cup { Pet(Index("Cerberus", 0), 100000001),
           Pet(Index(SECRET_LUCKY_BLOCK_NAME, 0), 5) }

NextCount ==
    \/ \E pets \in SeqsUpTo(CountPets, MaxBatch) :
          /\ _total_pets_received + Len(pets) <= MaxPetsReceived
          /\ UploadStart("bot7", pets, None)
    \/ \E i \in 1..MaxBatch : SendDone(i, "ok")
    \/ UploadReturn

SpecCount == Init /\ [][NextCount]_vars

(***************************************************************************)
(* Properties of the JobId cache                                           *)
(***************************************************************************)
\* the request whose step led to the current state (0: none, the clock)
Req == last.req

\* the ids of the entries of the pages a run received, in page order
LogIds(r) ==
    LET entries == Flatten(pagesLog[r])
    IN  [i \in 1..Len(entries) |-> entries[i].id]

LogWellFormed(r) ==
    LET entries == Flatten(pagesLog[r])
    IN  \A i \in 1..Len(entries) : HasId(entries[i])

\* a refresh call made at t would be skipped by the TTL gate
WithinTTL(t) ==
    /\ _cache_updated_at # NoTime
    /\ t - _cache_updated_at <= CACHE_TTL_SECONDS

\* C1 as the spec states it: a 429 received before any entry was accumulated
\* leaves both the cache and its timestamp as they were.
C1_Original ==
    [][ (last'.act = "429" /\ all_servers[last'.req] = <<>>)
        => /\ _job_ids_cache' = _job_ids_cache
           /\ _cache_updated_at' = _cache_updated_at ]_vars

\* C1 amended: a 429 received before any entry was accumulated leaves the
\* cache as it was and stamps the timestamp with the start time of the
\* refresh, so that a refresh called within TTL of that time is skipped.
C1_RateLimitEmptyStamps ==
    [][ (last'.act = "429" /\ all_servers[last'.req] = <<>>)
        => /\ _job_ids_cache' = _job_ids_cache
           /\ _cache_updated_at' = agora[last'.req]
           /\ \A t \in Instants :
                 (t >= now /\ t - agora[last'.req] <= CACHE_TTL_SECONDS)
                 => ~CacheExpired(t)' ]_vars

C1_Witness ==
    /\ last.act = "429"
    /\ all_servers[Req] = <<>>
    /\ _job_ids_cache # <<>>
    /\ _cache_updated_at = agora[Req]
    /\ agora[Req] > 0

\* C2 as the spec states it: a failure other than a rate limit (an exception,
\* a malformed body or entry, another status), on any page, leaves the cache
\* as it was and stamps the timestamp.
C2_Original ==
    [][ (\/ last'.act \in {"raise", "status"}
         \/ last'.act = "end" /\ IdsRaise(all_servers'[last'.req]))
        => /\ _job_ids_cache' = _job_ids_cache
           /\ _cache_updated_at' = agora[last'.req] ]_vars

\* C2 amended: every such failure stamps the timestamp.  An exception (also
\* that of an entry without id) leaves the cache as it was; a status other
\* than 200 and 429 ends the pagination as if the pages were over: the cache
\* is replaced by the ids accumulated so far when there are any, and is left
\* as it was when there are none.
C2_FailureStamps ==
    [][ \A r \in Requests : last'.req = r =>
          /\ (\/ last'.act = "raise"
              \/ last'.act \in {"end", "status"} /\ ~LogWellFormed(r)')
             => /\ _job_ids_cache' = _job_ids_cache
                /\ _cache_updated_at' = agora[r]
          /\ (last'.act = "status" /\ LogWellFormed(r))
             => /\ _cache_updated_at' = agora[r]
                /\ _job_ids_cache' =
                      IF LogIds(r) = <<>> THEN _job_ids_cache ELSE LogIds(r)
      ]_vars

C2_Witness ==
    /\ last.act = "status"
    /\ Len(pagesLog[Req]) >= 1
    /\ LogWellFormed(Req)
    /\ _job_ids_cache = LogIds(Req)
    /\ _cache_updated_at = agora[Req]
    /\ agora[Req] > 0

\* C3: at most one pagination run is in flight at any time.
C3_SingleInFlight ==
    Cardinality({ r \in Requests : pc[r] \in {"get", "sleep"} }) <= 1

\* C6: a refresh call made with a timestamp at most TTL old issues no fetch
\* and leaves cache and timestamp unchanged; a call issues a fetch only when
\* the timestamp is absent or more than TTL old.
C6_NoFetchWithinTTL ==
    [][ \A r \in Requests :
          (pc[r] \in {"idle", "done"} /\ last'.req = r)
          => IF WithinTTL(now)
             THEN /\ last'.act = "skip"
                  /\ pc'[r] = "done"
                  /\ _job_ids_cache' = _job_ids_cache
                  /\ _cache_updated_at' = _cache_updated_at
             ELSE /\ last'.act = "fetch"
                  /\ pc'[r] = "get" ]_vars

C6_Witness ==
    /\ last.act = "skip"
    /\ now - _cache_updated_at = CACHE_TTL_SECONDS
    /\ _cache_updated_at > 0
    /\ \E r \in Requests : pc[r] = "sleep"

\* C7: a pagination whose fetches all succeed and whose pages hold at least
\* one entry runs until a page names no further cursor; the cache is then the
\* ids of all the pages in page order and the timestamp is stamped.
C7_FullPagination ==
    \A r \in Requests :
       /\ (Req = r /\ last.act = "page")
          => pc[r] = "sleep" /\ cursor[r] = Len(pagesLog[r]) + 1
       /\ (Req = r /\ last.act = "end" /\ LogWellFormed(r) /\ LogIds(r) # <<>>)
          => /\ _job_ids_cache = LogIds(r)
             /\ _cache_updated_at = agora[r]
             /\ cursor[r] = 0
             /\ pc[r] = "done"

C7_Witness ==
    /\ last.act = "end"
    /\ pagesLog[Req] =
          << <<Server("b"), Server("a")>>, <<>>, <<Server("b")>> >>
    /\ _job_ids_cache = <<"b", "a", "b">>

\* C8 as the spec states it: a 429 after k >= 1 pages were collected leaves
\* the cache holding exactly the ids of those pages.
C8_Original ==
    \A r \in Requests :
       (Req = r /\ last.act = "429" /\ Len(pagesLog[r]) >= 1 /\ LogWellFormed(r))
       => _job_ids_cache = LogIds(r)

\* C8 amended: a 429 after pages holding at least one entry were collected
\* leaves the cache holding exactly the ids of those pages in page order,
\* stamps the timestamp and ends the run.
C8_PartialSave ==
    \A r \in Requests :
       (Req = r /\ last.act = "429" /\ LogWellFormed(r) /\ LogIds(r) # <<>>)
       => /\ _job_ids_cache = LogIds(r)
          /\ _cache_updated_at = agora[r]
          /\ pc[r] = "done"

C8_Witness ==
    /\ last.act = "429"
    /\ pagesLog[Req] = << <<Server("a")>>, <<Server("b")>> >>
    /\ _job_ids_cache = <<"a", "b">>
    /\ agora[Req] > 0

\* C9: a pagination that ends without error and with no entry leaves the
\* cache as it was and stamps the timestamp, so that a refresh called within
\* TTL of that time is skipped.
C9_EmptySuccess ==
    [][ \A r \in Requests :
          (last'.req = r /\ last'.act = "end" /\ all_servers'[r] = <<>>)
          => /\ _job_ids_cache' = _job_ids_cache
             /\ _cache_updated_at' = agora[r]
             /\ \A t \in Instants :
                   (t >= now /\ t - agora[r] <= CACHE_TTL_SECONDS)
                   => ~CacheExpired(t)' ]_vars

C9_Witness ==
    /\ last.act = "end"
    /\ Len(pagesLog[Req]) >= 2
    /\ all_servers[Req] = <<>>
    /\ _job_ids_cache # <<>>
    /\ _cache_updated_at = agora[Req]

\* C10: the lookup never answers with an error; once it answered, the answer
\* is None exactly when the cache is empty and an id of the cache otherwise.
C10_LookupNeverErrors ==
    \A r \in Requests :
       /\ result[r] # "error"
       /\ (Req = r /\ last.act \in {"skip", "end", "429", "status", "raise"})
          => /\ pc[r] = "done"
             /\ result[r] = None <=> _job_ids_cache = <<>>
             /\ _job_ids_cache # <<>> => result[r] \in Range(_job_ids_cache)

C10_Witness ==
    /\ last.act = "raise"
    /\ pagesLog[Req] # <<>>
    /\ result[Req] = None
    /\ _job_ids_cache = <<>>

(***************************************************************************)
(* Properties of the upload handler                                        *)
(***************************************************************************)
InFlight == { i \in 1..Len(tasks) : tasks[i].state = "inflight" }

\* C4 as the spec states it: the acknowledgment does not wait on delivery:
\* while sends of the upload are in flight, the handler can return.
C4_Original ==
    (up_pc = "gather" /\ InFlight # {}) => ENABLED UploadReturn

\* C4 amended: the handler starts all the sends of the upload together and
\* awaits them: the acknowledgment is returned only once no send of the
\* upload is in flight any more, whatever the outcome of each.
C4_AckAfterSends ==
    /\ last.act = "upload" => (tasks # <<>> /\ InFlight = 1..Len(tasks))
    /\ InFlight # {} => (up_pc = "gather" /\ ack.status = "pending")
    /\ up_pc = "done" => (InFlight = {} /\ ack.status = "ok")

C4_Witness ==
    /\ up_pc = "done"
    /\ last.act = "upload_ack"
    /\ Len(tasks) = 2
    /\ tasks[1].state = "raise"
    /\ tasks[2].state = "ok"
    /\ ack = Ack(<<tasks[1].pet, tasks[2].pet>>, "job1")

(***************************************************************************)
(* Properties of the status loop                                           *)
(***************************************************************************)
\* C5 as the spec states it: after an update that failed, by a status or by
\* a transport error, no message id is stored and the next call is a create.
C5_Original ==
    (st_prev.call = "update" /\ st_prev.how \in {"status", "raise"})
    => /\ st_pc = "sleep" => _status_message_id = None
       /\ st_pc # "sleep" => st_pc = "post"

\* C5 amended: after an update that failed by a status outside (200, 204),
\* no message id is stored and the next call is a create; after an update
\* that failed by a transport error or a timeout, the message id is still
\* stored and the next call is an update again.
C5_SelfHealing ==
    /\ (st_prev.call = "update" /\ st_prev.how = "status")
       => /\ st_pc = "sleep" => _status_message_id = None
          /\ st_pc # "sleep" => st_pc = "post"
    /\ (st_prev.call = "update" /\ st_prev.how = "raise")
       => /\ _status_message_id # None
          /\ st_pc # "sleep" => st_pc = "patch"

C5_Witness ==
    /\ st_prev = [call |-> "update", how |-> "status"]
    /\ st_pc = "post"
    /\ last.act = "create"
    /\ _status_message_id = None


\* the pets of a batch that some rule of section 4.2 notifies
Categorized(pet) ==
    LET name == pet.index.name
    IN  \/ name = SECRET_LUCKY_BLOCK_NAME
        \/ name = "Capitano Moby"
        \/ name \in TIER1_PETS \cup TIER2_PETS \cup TIER3_PETS
        \/ pet.gen > 20000000

CategorizedOf(pets) == SelectSeq(pets, Categorized)

\* C11: every categorized pet of the batch gets exactly one send, started
\* with the others; a send that ended, however it ended, is never started
\* again and ends no other send; once all have ended the handler returns
\* the acknowledgment "ok" with the size of the batch, for every combination
\* of outcomes.
C11_OneSendEach ==
    /\ [](up_pc # "idle" =>
            /\ Len(tasks) = Len(CategorizedOf(up_data.pets))
            /\ \A i \in 1..Len(tasks) :
                   tasks[i].pet = CategorizedOf(up_data.pets)[i]
            /\ up_pc = "done" =>
                   /\ \A i \in 1..Len(tasks) :
                          tasks[i].state \in SendOutcomes
                   /\ ack = Ack(up_data.pets, up_data.current_job_id))
    /\ [][up_pc = "gather" =>
            /\ Len(tasks') = Len(tasks)
            /\ \A i \in 1..Len(tasks) :
                   /\ tasks'[i].pet = tasks[i].pet
                   /\ tasks'[i].url = tasks[i].url
                   /\ tasks[i].state # "inflight" => tasks'[i] = tasks[i]
            /\ Cardinality({ i \in 1..Len(tasks) : tasks'[i] # tasks[i] })
                   <= 1]_vars

C11_Witness ==
    /\ up_pc = "done"
    /\ Len(up_data.pets) = 2
    /\ Len(tasks) = 2
    /\ tasks[1].state = "status"
    /\ tasks[2].state = "raise"
    /\ ack.status = "ok"
    /\ ack.pets_received = 2

\* C12: while no message id is stored, a tick of the status loop sends a
\* POST, never a PATCH, and a PATCH is sent only with an id stored.  After
\* a POST that returned an id, that id is the one stored and the next tick
\* sends a PATCH (to the message of that id); after a POST that failed, by
\* an error status or an exception, or that returned no id, no id is stored
\* and the next tick sends a POST again.
C12_CreateThenUpdate ==
    /\ st_pc # "sleep" => (st_pc = "post" <=> _status_message_id = None)
    /\ last.act = "create" => st_pc = "post"
    /\ last.act = "update" => st_pc = "patch"
    /\ (st_prev.call = "create" /\ st_prev.how = "id") =>
          /\ st_prev.id \in MessageIds
          /\ _status_message_id = st_prev.id
          /\ st_pc \in {"sleep", "patch"}
    /\ (st_prev.call = "create" /\ st_prev.how # "id") =>
          /\ _status_message_id = None
          /\ st_pc \in {"sleep", "post"}

C12_Witness ==
    /\ st_prev = [call |-> "create", how |-> "id", id |-> "m2"]
    /\ st_pc = "patch"
    /\ last.act = "update"
    /\ _status_message_id = "m2"

(***************************************************************************)
(* Properties of the classification                                        *)
(***************************************************************************)
\* the pet of an upload of one pet, once the handler has looked at it
OnePet == up_pc # "idle" /\ Len(up_data.pets) = 1

ThePet == up_data.pets[1]

TheName == ThePet.index.name

Urls == { tasks[i].url : i \in 1..Len(tasks) }

\* C13: a pet is notified to at most one webhook, and a pet whose name,
\* stripped, is in a tier set is notified to the webhook of that tier and
\* to no other, whatever its gen, above GEN_HIGH included.
C13_OneCategory ==
    OnePet =>
        /\ Len(tasks) <= 1
        /\ \A i \in 1..Len(tasks) : tasks[i].pet = ThePet
        /\ TheName \in TIER1_PETS =>
               (Len(tasks) = 1 /\ Urls = {"WEBHOOK_TIER1"})
        /\ TheName \in TIER2_PETS =>
               (Len(tasks) = 1 /\ Urls = {"WEBHOOK_TIER2"})
        /\ TheName \in TIER3_PETS =>
               (Len(tasks) = 1 /\ Urls = {"WEBHOOK_TIER3"})

C13_Witness ==
    /\ OnePet
    /\ ThePet = Pet(Index("Los Tacoritas", 1), 25000001)
    /\ Len(tasks) = 1
    /\ tasks[1].url = "WEBHOOK_TIER3"
    /\ tasks[1].state = "ok"
    /\ up_pc = "done"

\* C14: a pet named "Capitano Moby" is notified to the webhook of tier 1
\* when its gen is 1,000,000,000 or more and to the webhook of tier 2 when
\* its gen is 999,999,999 or less, and to no other webhook: never to the
\* high-gen one.
C14_CapitanoMoby ==
    (OnePet /\ TheName = "Capitano Moby") =>
        /\ Len(tasks) = 1
        /\ ThePet.gen >= 1000000000 => Urls = {"WEBHOOK_TIER1"}
        /\ ThePet.gen <= 999999999 => Urls = {"WEBHOOK_TIER2"}
        /\ get_pet_tier(ThePet) = (IF ThePet.gen >= 1000000000 THEN 1 ELSE 2)
        /\ ~ is_gen_high(ThePet)

C14_Witness ==
    /\ OnePet
    /\ ThePet = Pet(Index("Capitano Moby", 1), 1000000000)
    /\ Len(tasks) = 1
    /\ tasks[1].url = "WEBHOOK_TIER1"
    /\ up_pc = "gather"

\* C15: a pet is notified to the high-gen webhook exactly when its name,
\* stripped, is in no tier set, is neither "Capitano Moby" nor "Secret
\* Lucky Block", and its gen is strictly above 20,000,000; such a name with
\* a gen of 20,000,000 or less is not notified at all.
C15_HighGenStrict ==
    OnePet =>
        LET residual ==
                /\ TheName \notin TIER1_PETS \cup TIER2_PETS \cup TIER3_PETS
                /\ TheName # "Capitano Moby"
                /\ TheName # "Secret Lucky Block"
        IN  /\ "WEBHOOK_HIGH_GEN" \in Urls <=>
                   (residual /\ ThePet.gen > 20000000)
            /\ (residual /\ ThePet.gen <= 20000000) => tasks = <<>>

C15_Witness ==
    /\ OnePet
    /\ ThePet = Pet(Index("Cooki and Milki", 0), 20000000)
    /\ tasks = <<>>
    /\ up_pc = "done"
    /\ ack.pets_received = 1

(***************************************************************************)
(* Properties of the gen counters                                          *)
(***************************************************************************)
Threshold(k) ==
    CASE k = "10M" -> 10000000
      [] k = "50M" -> 50000000
      [] k = "100M" -> 100000000
      [] k = "500M" -> 500000000
      [] k = "1B" -> 1000000000

\* the pets of a batch whose gen is strictly above the threshold of k
Above(pets, k) ==
    { i \in 1..Len(pets) : pets[i].gen > Threshold(k) }

\* a step that is the arrival of an upload
UploadArrives == up_pc \in {"idle", "done"} /\ up_pc' \in {"gather", "done"}

\* C16: an upload adds to each counter one per pet of the batch whose gen
\* is strictly above the threshold of the counter, and nothing for a pet
\* whose gen is the threshold or less: a gen above 1,000,000,000 counts in
\* all five, a gen of 10,000,000 or less in none; no other step changes a
\* counter, so no counter ever decreases.
C16_Cumulative ==
    [][/\ UploadArrives =>
             \A k \in GenKeys :
                 _gen_counters'[k] =
                     _gen_counters[k] + Cardinality(Above(up_data'.pets, k))
       /\ ~ UploadArrives => _gen_counters' = _gen_counters
       /\ \A k \in GenKeys : _gen_counters'[k] >= _gen_counters[k]]_vars

C16_Witness ==
    /\ last.act = "upload"
    /\ up_data.pets = <<Pet(Index("Noobini Pizzanini", 0), 500000000)>>
    /\ _total_pets_received = 2
    /\ _gen_counters =
          [k \in GenKeys |->
              IF k = "1B" THEN 1 ELSE IF k = "500M" THEN 1 ELSE 2]

(***************************************************************************)
(* Properties of the bot activity                                          *)
(***************************************************************************)
\* the players whose latest upload is 180 s old or less
ActiveNow == { p \in DOMAIN last_touch : now - last_touch[p] <= 180 }

\* C17: at every instant the count of active bots is the number of players
\* whose latest upload is at most 180 s old, 180 s included and 181 s
\* excluded, whether the status loop has cleaned _active_bots since or not:
\* the cleanup drops no such player, the instant kept for a player is the
\* one of its latest upload, and the count the status loop publishes right
\* after its cleanup is that number too.
C17_ActivityWindow ==
    /\ get_active_bot_count(_active_bots, now) = Cardinality(ActiveNow)
    /\ \A p \in ActiveNow :
           p \in DOMAIN _active_bots /\ _active_bots[p] = last_touch[p]
    /\ \A p \in DOMAIN _active_bots : _active_bots[p] = last_touch[p]
    /\ last.act \in {"create", "update"} =>
           st_payload.bots_online = Cardinality(ActiveNow)

C17_Witness ==
    /\ now = 181
    /\ last_touch = [p \in Players |-> IF p = "bot7" THEN 1 ELSE 0]
    /\ DOMAIN _active_bots = {"bot7"}
    /\ last.act = "update"
    /\ st_payload.bots_online = 1

\* the urls of the sends, with their number of sends
UrlBag ==
    [u \in Urls |-> Cardinality({ i \in 1..Len(tasks) : tasks[i].url = u })]

TierAPet == Pet(Index("Cerberus", 1), 5)

NoRulePet == Pet(Index("Noobini Pizzanini", 0), 25000001)

\* C18: an upload of two pets, one with a name of tier 1 and gen 5 and one
\* with a name of no rule and gen 25,000,001, in either order, makes exactly
\* two sends: one to the webhook of tier 1, for the first pet, and one to
\* the high-gen webhook, for the second; no other send is made, up to the
\* acknowledgment.
C18_TwoDispatches ==
    (up_pc # "idle" /\
     up_data.pets \in {<<TierAPet, NoRulePet>>, <<NoRulePet, TierAPet>>}) =>
        /\ Len(tasks) = 2
        /\ UrlBag = [u \in {"WEBHOOK_TIER1", "WEBHOOK_HIGH_GEN"} |-> 1]
        /\ \A i \in 1..2 :
               tasks[i].pet = (IF tasks[i].url = "WEBHOOK_TIER1"
                               THEN TierAPet ELSE NoRulePet)

C18_Witness ==
    /\ up_pc = "done"
    /\ up_data.pets = <<TierAPet, NoRulePet>>
    /\ Len(tasks) = 2
    /\ tasks[1].url = "WEBHOOK_TIER1"
    /\ tasks[2].url = "WEBHOOK_HIGH_GEN"
    /\ \A i \in 1..2 : tasks[i].state = "ok"

(***************************************************************************)
(* Properties of the cache over interleaved requests                       *)
(***************************************************************************)
\* C19: once the cache is not empty no step empties it, whatever the
\* requests in flight and however each refresh ends, and a request that
\* ends from then on answers an id of the cache, never None nor an error.
C19_NeverEmptied ==
    [][ _job_ids_cache # <<>> =>
          /\ _job_ids_cache' # <<>>
          /\ \A r \in Requests :
                (pc[r] # "done" /\ pc'[r] = "done")
                => result'[r] \in Range(_job_ids_cache') ]_vars

C19_Witness ==
    /\ last.act = "status"
    /\ all_servers[Req] = <<>>
    /\ _job_ids_cache # <<>>
    /\ result[Req] \in Range(_job_ids_cache)
    /\ \E r \in Requests : pc[r] \in {"get", "sleep"}

\* C20: no step moves _cache_updated_at backward: every write stores an
\* instant that is not before the one it replaces.
C20_TimestampMonotone ==
    [][ _cache_updated_at' >= _cache_updated_at ]_vars

\* C21: in every state the counters are ordered, "1B" <= "500M" <= "100M"
\* <= "50M" <= "10M" <= _total_pets_received, and an upload adds to
\* _total_pets_received exactly the number of its pets, whatever their gen
\* and whether and where they are notified; no other step changes it.
C21_CounterOrdering ==
    /\ [](/\ _gen_counters["1B"] <= _gen_counters["500M"]
          /\ _gen_counters["500M"] <= _gen_counters["100M"]
          /\ _gen_counters["100M"] <= _gen_counters["50M"]
          /\ _gen_counters["50M"] <= _gen_counters["10M"]
          /\ _gen_counters["10M"] <= _total_pets_received)
    /\ [][IF UploadArrives
          THEN _total_pets_received' =
                   _total_pets_received + Len(up_data'.pets)
          ELSE _total_pets_received' = _total_pets_received]_vars

C21_Witness ==
    /\ up_pc = "done"
    /\ up_data.pets = <<Pet(Index("Cerberus", 0), 100000001),
                        Pet(Index(SECRET_LUCKY_BLOCK_NAME, 0), 5)>>
    /\ Len(tasks) = 2
    /\ _total_pets_received = 2
    /\ _gen_counters =
          [k \in GenKeys |-> IF k \in {"1B", "500M"} THEN 0 ELSE 1]

\* a step that is a tick of the status loop: cleanup, count, request; the
\* cleanup reads the clock at now, the count at now'
StatusTicks == st_pc = "sleep" /\ st_pc' # "sleep"

\* the cleanup of a tick removes exactly the entries more than 180 s old at
\* its instant, so none that the count would include at that instant, and
\* the count at that instant is the same on the map before and after
EvictionExact ==
    /\ DOMAIN _active_bots' =
          { p \in DOMAIN _active_bots : ~ (now - _active_bots[p] > 180) }
    /\ \A p \in DOMAIN _active_bots' : _active_bots'[p] = _active_bots[p]
    /\ get_active_bot_count(_active_bots', now) =
          get_active_bot_count(_active_bots, now)

\* C22 as the spec states it: the cleanup is exact and, right after the
\* cleanup of a tick, the count that the tick takes equals the size of the
\* map: every remaining entry is counted.
C22_Original ==
    [][ StatusTicks =>
          /\ EvictionExact
          /\ st_payload'.bots_online = Cardinality(DOMAIN _active_bots') ]_vars

\* C22 amended: the cleanup is exact and every entry it leaves is active
\* at the instant of the cleanup; the tick then reads the clock again for
\* its count, which is the number of remaining entries at most 180 s old at
\* that second instant: the size of the map when both instants are the
\* same, and less when an entry passed 180 s between the two.
C22_EvictionAgrees ==
    [][ StatusTicks =>
          /\ EvictionExact
          /\ get_active_bot_count(_active_bots', now) =
                Cardinality(DOMAIN _active_bots')
          /\ st_payload'.bots_online =
                Cardinality({ p \in DOMAIN _active_bots' :
                                 now' - _active_bots'[p] <= 180 })
          /\ st_payload'.bots_online <= Cardinality(DOMAIN _active_bots')
          /\ now' = now =>
                st_payload'.bots_online = Cardinality(DOMAIN _active_bots')
      ]_vars

C22_Witness ==
    /\ st_pc # "sleep"
    /\ last.act \in {"create", "update"}
    /\ now = 182
    /\ last_touch = [p \in Players |-> IF p = "bot7" THEN 1 ELSE 0]
    /\ DOMAIN _active_bots = {"bot7"}
    /\ st_payload.bots_online = 0
=============================================================================
